---- MODULE Spec2Model ----
(***************************************************************************)
(* HoloForge hand-tracking engine: HandTrackingService (connect,           *)
(* initializeHandTracking, startCamera, detectLoop, the dispatch helpers,  *)
(* getScrollParent, disconnect) as a state machine, and the drawing effect *)
(* of PaintCanvas, which consumes the cursor updates.                      *)
(*                                                                         *)
(* Units.  Landmark coordinates are normalised floats in the source; here  *)
(* they are integers in thousandths (0.06 is 60).  Screen coordinates are  *)
(* integers in 1/Unit pixel with Unit = 5^LerpDepth, so that the lerp      *)
(* c + (t - c) * 0.2 is exact for LerpDepth consecutive refinements; a     *)
(* hand frame whose lerp would not be exact in this unit is not taken.     *)
(* Wheel deltas are in thousandths of a pixel, scrollBy amounts in tenths  *)
(* of the screen unit.  Times are integer milliseconds.                    *)
(***************************************************************************)
EXTENDS Integers, Sequences, FiniteSets, TLC

\* ------------------------------------------------------------------ bounds
\* connect() calls ever made
MaxConnects == 2
\* how far from its target, in grid points, a smoothing run may start
MaxOffset == 12
\* video frames a camera delivers (video.currentTime counts frames 0..MaxVideoTime)
MaxVideoTime == 3

\* ---------------------------------------------------------------- constants
innerWidth == 1000
innerHeight == 1000
\* smoothing = 0.2, in tenths
smoothingTenths == 2
zoomSensitivity == 3000
\* distance < 0.06, in thousandths
PinchThreshold == 60
\* duration > 2000
DwellMs == 2000
\* duration > 200 && duration < 1800
ClickMinMs == 200
ClickMaxMs == 1800
\* Math.abs(scaleDelta) > 0.002, in thousandths
ZoomDeadzone == 2
\* Math.abs(deltaX) > 1, in pixels
PanDeadzone == 1
\* scrollBy(deltaX * -1.5, ...), in tenths
PanGainTenths == 15

RECURSIVE Pow5(_)
Pow5(n) == IF n = 0 THEN 1 ELSE 5 * Pow5(n - 1)

LerpDepth == MaxVideoTime + 1
Unit == Pow5(LerpDepth)

Null == "null"

Abs(n) == IF n < 0 THEN -n ELSE n

\* ---------------------------------------------------------------- the DOM
\* A static element tree: parentElement, instanceof HTMLElement, the computed
\* overflow styles and the scroll/client sizes getScrollParent reads.
\* null where an element is expected
NoElement == 0

Nodes == 1..8

Dom ==
  [n \in Nodes |->
     CASE n = 1 -> [parent |-> NoElement, html |-> TRUE, overflowX |-> "visible", overflowY |-> "visible",
                    scrollWidth |-> 1000, clientWidth |-> 1000, scrollHeight |-> 1000, clientHeight |-> 1000]
       [] n = 2 -> [parent |-> 1, html |-> TRUE, overflowX |-> "visible", overflowY |-> "auto",
                    scrollWidth |-> 300, clientWidth |-> 300, scrollHeight |-> 900, clientHeight |-> 400]
       [] n = 3 -> [parent |-> 2, html |-> TRUE, overflowX |-> "visible", overflowY |-> "visible",
                    scrollWidth |-> 100, clientWidth |-> 100, scrollHeight |-> 40, clientHeight |-> 40]
       [] n = 4 -> [parent |-> 1, html |-> TRUE, overflowX |-> "hidden", overflowY |-> "hidden",
                    scrollWidth |-> 800, clientWidth |-> 600, scrollHeight |-> 800, clientHeight |-> 600]
       [] n = 5 -> [parent |-> 4, html |-> FALSE, overflowX |-> "scroll", overflowY |-> "scroll",
                    scrollWidth |-> 900, clientWidth |-> 600, scrollHeight |-> 900, clientHeight |-> 600]
       [] n = 6 -> [parent |-> 1, html |-> TRUE, overflowX |-> "scroll", overflowY |-> "visible",
                    scrollWidth |-> 500, clientWidth |-> 500, scrollHeight |-> 200, clientHeight |-> 200]
       [] n = 7 -> [parent |-> 6, html |-> TRUE, overflowX |-> "hidden", overflowY |-> "scroll",
                    scrollWidth |-> 700, clientWidth |-> 500, scrollHeight |-> 200, clientHeight |-> 200]
       [] OTHER -> [parent |-> 3, html |-> FALSE, overflowX |-> "visible", overflowY |-> "visible",
                    scrollWidth |-> 20, clientWidth |-> 20, scrollHeight |-> 20, clientHeight |-> 20]]

\* (variant: only 'visible' is excluded)
IsScrollableUnlessVisible(n) == Dom[n].overflowY # "visible" \/ Dom[n].overflowX # "visible"

IsScrollable(n) ==
  \/ (Dom[n].overflowY # "visible" /\ Dom[n].overflowY # "hidden")
  \/ (Dom[n].overflowX # "visible" /\ Dom[n].overflowX # "hidden")

Overflows(n) ==
  \/ Dom[n].scrollHeight > Dom[n].clientHeight
  \/ Dom[n].scrollWidth > Dom[n].clientWidth

RECURSIVE getScrollParent(_)
getScrollParent(node) ==
  IF node = NoElement THEN NoElement
  ELSE IF Dom[node].html /\ IsScrollable(node) /\ Overflows(node) THEN node
  ELSE getScrollParent(Dom[node].parent)

\* --------------------------------------------------------------- landmarks
Pt(px, py) == [x |-> px, y |-> py]

\* One detected hand: the four landmarks detectLoop reads (8, 4, 0, 9).
Hand(ix, iy, gx, gy, scale) ==
  [indexTip |-> Pt(ix, iy), thumbTip |-> Pt(ix - gx, iy - gy),
   wrist |-> Pt(500, 900), middleMCP |-> Pt(500, 900 - scale)]

\* Math.sqrt on the fixed-point grid: the integer square root.
RECURSIVE SqrtBetween(_, _, _)
SqrtBetween(n, lo, hi) ==
  IF lo >= hi THEN lo
  ELSE LET mid == (lo + hi + 1) \div 2
       IN IF mid * mid <= n THEN SqrtBetween(n, mid, hi) ELSE SqrtBetween(n, lo, mid - 1)

Sqrt(n) == SqrtBetween(n, 0, 1500)

Distance(p, q) == Sqrt((p.x - q.x) * (p.x - q.x) + (p.y - q.y) * (p.y - q.y))

\* (1 - indexTip.x) * innerWidth and indexTip.y * innerHeight: a thousandth of
\* the window is a whole number of screen units
RawX(lm) == (1000 - lm.indexTip.x) * ((innerWidth * Unit) \div 1000)
RawY(lm) == lm.indexTip.y * ((innerHeight * Unit) \div 1000)

\* (variant: smoothing factor 1.2)
LerpOvershoot(c, target) == c + ((target - c) * 12) \div 10
\* (variant: smoothing factor 0.5)
LerpHalfway(c, target) == c + ((target - c) * 5) \div 10
Lerp(c, target) == c + ((target - c) * smoothingTenths) \div 10
LerpExact(c, target) == ((target - c) * smoothingTenths) % 10 = 0

\* n / d rounded to the nearest integer (d > 0)
RoundNearest(n, d) == (2 * n + d) \div (2 * d)

\* (variant: the increment subtracted)
LerpRoundedAway(c, target) == c - RoundNearest((target - c) * smoothingTenths, 10)
\* cursor += (target - cursor) * smoothing on the grid of the representable
\* values around the cursor, one unit being the spacing of that grid: the sum
\* is rounded to the nearest grid point, as a double addition is.
LerpRounded(c, target) == c + RoundNearest((target - c) * smoothingTenths, 10)

\* (variant: the threshold compared with <=)
IsPinchingAtThreshold(lm) == Distance(lm.indexTip, lm.thumbTip) <= PinchThreshold
IsPinching(lm) == Distance(lm.indexTip, lm.thumbTip) < PinchThreshold
CurrentScale(lm) == Distance(lm.middleMCP, lm.wrist)

\* ------------------------------------------------------------------ state
VARIABLES
  \* HandTrackingService fields
  handLandmarker, video, animationId, lastVideoTime, callback,
  cursorX, cursorY, targetX, targetY,
  wasPinching, pinchStartTime, isScrolling, lastScrollX, lastScrollY, lastHandScale,
  \* the connect() calls in flight, the browser's animation-frame queue, the
  \* camera's currentTime, the wall clock, and the resources held
  pc, rafQueue, videoTime, clock, landmarkersOpen, videosInDom, streamsLive,
  \* what the last step did: the locals of the frame it processed, the
  \* dispatch calls it made, the onUpdate calls it made
  frame, effects, updates,
  \* disconnect() was called and connect() not since; the last press effect;
  \* of the pinch session that is open or that the last step closed: the press
  \* and click calls in order, the kinds of scroll calls made, and the cursor
  \* and hand scale of its first frame
  stopped, lastPress, sessionLog, sessionScrolls, sessionOrigin,
  \* PaintCanvas: its cursor and settings props, the isDrawing state of the
  \* committed render and the one queued by setIsDrawing, the lastPos ref, the
  \* 2d context of the canvas; what the last run of the drawing effect drew and
  \* the cursor update it processed
  cursor, settings, isDrawing, queuedIsDrawing, lastPos, ctx, stroke, processed

service == <<handLandmarker, video, animationId, lastVideoTime, callback>>
smoother == <<cursorX, cursorY, targetX, targetY>>
session == <<wasPinching, pinchStartTime, isScrolling, lastScrollX, lastScrollY, lastHandScale>>
resources == <<landmarkersOpen, videosInDom, streamsLive>>
engine == <<service, smoother, session, pc, rafQueue, videoTime, clock, resources,
            frame, effects, updates, stopped, lastPress, sessionLog, sessionScrolls, sessionOrigin>>
paint == <<cursor, settings, isDrawing, queuedIsDrawing, lastPos, ctx, stroke, processed>>
vars == <<engine, paint>>

Tasks == 1..MaxConnects

\* A step that processed no hand frame: kind is "none" (no detectLoop pass),
\* "idle" (video or detector missing), "stale" (video frame not advanced) or
\* "nohand" (detector reported no hand), "threw" (detectForVideo threw).
NoFrame(kind) ==
  [kind |-> kind, calls |-> <<>>, tipX |-> 0, tipY |-> 0, dx |-> 0, dy |-> 0,
   isPinching |-> FALSE, currentScale |-> 0, now |-> 0, gesture |-> "OPEN",
   wasPinching |-> FALSE, wasScrolling |-> FALSE, duration |-> 0,
   deltaX |-> 0, deltaY |-> 0, scaleDelta |-> 0]

\* No pinch session is open
NoOrigin == [x |-> 0, y |-> 0, scale |-> 0]

\* lastPos.current = null; no segment drawn; no update processed yet
NoPos == [none |-> TRUE, x |-> 0, y |-> 0]
NoStroke == [kind |-> "none", from |-> NoPos, to |-> NoPos, tool |-> "BRUSH"]
NoUpdate == [none |-> TRUE, x |-> 0, y |-> 0, isDown |-> FALSE]

\* PaintCanvas as mounted, before the first run of its drawing effect; c is
\* what canvas.getContext('2d') returns
CanvasInit(c) ==
  /\ cursor = [x |-> 0, y |-> 0, isDown |-> FALSE]
  /\ settings = "BRUSH"
  /\ isDrawing = FALSE
  /\ queuedIsDrawing = FALSE
  /\ lastPos = NoPos
  /\ ctx = c
  /\ stroke = NoStroke
  /\ processed = NoUpdate

EngineInit ==
  /\ handLandmarker = Null
  /\ video = Null
  /\ animationId = 0
  /\ lastVideoTime = -1
  /\ callback = Null
  /\ cursorX = (innerWidth * Unit) \div 2
  /\ cursorY = (innerHeight * Unit) \div 2
  /\ targetX = (innerWidth * Unit) \div 2
  /\ targetY = (innerHeight * Unit) \div 2
  /\ wasPinching = FALSE
  /\ pinchStartTime = 0
  /\ isScrolling = FALSE
  /\ lastScrollX = 0
  /\ lastScrollY = 0
  /\ lastHandScale = 0
  /\ pc = [i \in Tasks |-> "idle"]
  /\ rafQueue = {}
  /\ videoTime = 0
  /\ clock = 0
  /\ landmarkersOpen = 0
  /\ videosInDom = 0
  /\ streamsLive = 0
  /\ frame = NoFrame("none")
  /\ effects = <<>>
  /\ updates = <<>>
  /\ stopped = FALSE
  /\ lastPress = "none"
  /\ sessionLog = <<>>
  /\ sessionScrolls = {}
  /\ sessionOrigin = NoOrigin

Init == EngineInit /\ CanvasInit("2d")

\* ------------------------------------------------------- dispatch helpers
\* Each helper hit-tests (el is document.elementFromPoint(x, y), NoElement when no
\* element is there) and dispatches only to an element.  The call is recorded
\* with its target; a record whose target is NoElement reached no element.
Effect(type, x, y, buttons, dX, dY, el) ==
  [type |-> type, x |-> x, y |-> y, buttons |-> buttons, deltaX |-> dX, deltaY |-> dY, target |-> el]

dispatchPointerEvent(type, x, y, buttons, el) == <<Effect(type, x, y, buttons, 0, 0, el)>>
dispatchWheelEvent(x, y, deltaY, el) == <<Effect("wheel", x, y, 0, 0, deltaY, el)>>
dispatchClickEvent(x, y, el) == <<Effect("click", x, y, 0, 0, 0, el)>>

\* scrollable.scrollBy(dx, dy), called only when a scroll parent was found
scrollBy(scrollable, dX, dY) ==
  IF scrollable # NoElement THEN <<Effect("scrollBy", 0, 0, 0, dX, dY, scrollable)>> ELSE <<>>

\* The press and click calls among seq, by type, in order
Presses(seq) ==
  LET kept == SelectSeq(seq, LAMBDA e : e.type \in {"pointerdown", "pointerup", "click"})
  IN [k \in 1..Len(kept) |-> kept[k].type]
\* The kinds of scroll calls among seq: a pan, a wheel event with negative
\* deltaY (zoom in), one with positive deltaY (zoom out)
Scrolls(seq) ==
  {"pan" : k \in {j \in 1..Len(seq) : seq[j].type = "scrollBy"}}
    \cup {"zoomIn" : k \in {j \in 1..Len(seq) : seq[j].type = "wheel" /\ seq[j].deltaY < 0}}
    \cup {"zoomOut" : k \in {j \in 1..Len(seq) : seq[j].type = "wheel" /\ seq[j].deltaY > 0}}
OfType(seq, type) == SelectSeq(seq, LAMBDA e : e.type = type)
Delivered(seq) == SelectSeq(seq, LAMBDA e : e.target # NoElement)

\* ------------------------------------------------- detectLoop: hand frame
\* (variant: the move never carries the pressed button)
MoveButtonsNone(isPinching) == 0
MoveButtons(isPinching) == IF isPinching THEN 1 ELSE 0

\* (variant: the start block does not consult wasPinching)
PinchStartEveryFrame(isPinching, was) == isPinching
PinchStart(isPinching, was) == isPinching /\ ~was
PinchHold(isPinching, was) == isPinching /\ was
PinchRelease(isPinching, was) == ~isPinching /\ was

\* (variants: the dwell compared with >=, with the click window's end, and
\* with the click window's start)
DwellElapsedFromClickMin(duration) == duration > ClickMinMs
DwellElapsedAtThreshold(duration) == duration >= DwellMs
DwellElapsedEarly(duration) == duration > ClickMaxMs
DwellElapsed(duration) == duration > DwellMs
\* (variant: the noise floor compared with >=)
PanExceedsAtDeadzone(deltaX, deltaY) == Abs(deltaX) >= PanDeadzone * Unit \/ Abs(deltaY) >= PanDeadzone * Unit
PanExceeds(deltaX, deltaY) == Abs(deltaX) > PanDeadzone * Unit \/ Abs(deltaY) > PanDeadzone * Unit
PanAmount(delta) == delta * (-PanGainTenths)
\* (variant: the deadzone compared with >=)
ZoomExceedsAtDeadzone(scaleDelta) == Abs(scaleDelta) >= ZoomDeadzone
ZoomExceeds(scaleDelta) == Abs(scaleDelta) > ZoomDeadzone
\* (variant: the delta not inverted)
WheelDeltaUninverted(scaleDelta) == scaleDelta * zoomSensitivity
WheelDelta(scaleDelta) == (-scaleDelta) * zoomSensitivity
\* (variants: the window closed below, closed above, and not tested at all)
\* (variant: the click window reaches up to the dwell threshold)
ClickAllowedBelowDwell(scrolling, duration) == ~scrolling /\ duration > ClickMinMs /\ duration < DwellMs
ClickAllowedFromMin(scrolling, duration) == ~scrolling /\ duration >= ClickMinMs /\ duration < ClickMaxMs
ClickAllowedThroughMax(scrolling, duration) == ~scrolling /\ duration > ClickMinMs /\ duration <= ClickMaxMs
ClickAllowedAnyDuration(scrolling, duration) == ~scrolling
ClickAllowed(scrolling, duration) == ~scrolling /\ duration > ClickMinMs /\ duration < ClickMaxMs

\* (variant: the gesture starts as PINCH whatever the classification)
EntryPinchAlways(loc) ==
  [pinchStartTime |-> pinchStartTime, isScrolling |-> isScrolling,
   lastScrollX |-> lastScrollX, lastScrollY |-> lastScrollY, lastHandScale |-> lastHandScale,
   gesture |-> "PINCH",
   out |-> dispatchPointerEvent("pointermove", loc.cx, loc.cy, MoveButtons(loc.isPinching), loc.el),
   duration |-> 0, deltaX |-> 0, deltaY |-> 0, scaleDelta |-> 0]

\* The session fields and the locals the three pinch blocks read and write,
\* before the first block.  loc holds the frame's derived values: cx, cy (the
\* cursor after the lerp), isPinching, currentScale, now, el.
Entry(loc) ==
  [pinchStartTime |-> pinchStartTime, isScrolling |-> isScrolling,
   lastScrollX |-> lastScrollX, lastScrollY |-> lastScrollY, lastHandScale |-> lastHandScale,
   gesture |-> IF loc.isPinching THEN "PINCH" ELSE "OPEN",
   out |-> dispatchPointerEvent("pointermove", loc.cx, loc.cy, MoveButtons(loc.isPinching), loc.el),
   duration |-> 0, deltaX |-> 0, deltaY |-> 0, scaleDelta |-> 0]

\* (variant: the session is opened only when the pointerdown has a target)
PinchStartBlockNeedsElement(m, loc) ==
  IF PinchStart(loc.isPinching, wasPinching) /\ loc.el # NoElement
  THEN [m EXCEPT !.pinchStartTime = loc.now,
                 !.isScrolling = FALSE,
                 !.lastScrollX = loc.cx,
                 !.lastScrollY = loc.cy,
                 !.lastHandScale = loc.currentScale,
                 !.out = @ \o dispatchPointerEvent("pointerdown", loc.cx, loc.cy, 1, loc.el)]
  ELSE m

\* (variant: the start does not store the position)
PinchStartBlockKeepsPosition(m, loc) ==
  IF PinchStart(loc.isPinching, wasPinching)
  THEN [m EXCEPT !.pinchStartTime = loc.now,
                 !.isScrolling = FALSE,
                 !.lastHandScale = loc.currentScale,
                 !.out = @ \o dispatchPointerEvent("pointerdown", loc.cx, loc.cy, 1, loc.el)]
  ELSE m

\* 1. Pinch Start
PinchStartBlock(m, loc) ==
  IF PinchStart(loc.isPinching, wasPinching)
  THEN [m EXCEPT !.pinchStartTime = loc.now,
                 !.isScrolling = FALSE,
                 !.lastScrollX = loc.cx,
                 !.lastScrollY = loc.cy,
                 !.lastHandScale = loc.currentScale,
                 !.out = @ \o dispatchPointerEvent("pointerdown", loc.cx, loc.cy, 1, loc.el)]
  ELSE m

\* Scroll/Zoom mode: the body of `if (duration > 2000)`
ScrollZoom(m, loc) ==
  LET deltaX == loc.cx - m.lastScrollX
      deltaY == loc.cy - m.lastScrollY
      pan == IF PanExceeds(deltaX, deltaY)
             THEN scrollBy(getScrollParent(loc.el), PanAmount(deltaX), PanAmount(deltaY))
             ELSE <<>>
      scaleDelta == loc.currentScale - m.lastHandScale
      zoom == IF ZoomExceeds(scaleDelta)
              THEN dispatchWheelEvent(loc.cx, loc.cy, WheelDelta(scaleDelta), loc.el)
              ELSE <<>>
  IN [m EXCEPT !.isScrolling = TRUE,
               !.gesture = "SCROLL",
               !.out = @ \o pan \o zoom,
               !.deltaX = deltaX, !.deltaY = deltaY, !.scaleDelta = scaleDelta]

\* (variant: the last position and scale are stored only in scroll mode)
PinchHoldBlockStoresInScrollMode(m, loc) ==
  IF PinchHold(loc.isPinching, wasPinching)
  THEN LET duration == loc.now - m.pinchStartTime
       IN IF DwellElapsed(duration)
          THEN [ScrollZoom(m, loc) EXCEPT !.lastScrollX = loc.cx,
                                          !.lastScrollY = loc.cy,
                                          !.lastHandScale = loc.currentScale,
                                          !.duration = duration]
          ELSE [m EXCEPT !.duration = duration]
  ELSE m

\* (variant: entering scroll mode restarts the dwell clock)
PinchHoldBlockRestartsDwell(m, loc) ==
  IF PinchHold(loc.isPinching, wasPinching)
  THEN LET duration == loc.now - m.pinchStartTime
           held == IF DwellElapsed(duration) THEN ScrollZoom(m, loc) ELSE m
       IN [held EXCEPT !.pinchStartTime = IF DwellElapsed(duration) THEN loc.now ELSE @,
                       !.lastScrollX = loc.cx,
                       !.lastScrollY = loc.cy,
                       !.lastHandScale = loc.currentScale,
                       !.duration = duration]
  ELSE m

\* 2. Pinch Hold
PinchHoldBlock(m, loc) ==
  IF PinchHold(loc.isPinching, wasPinching)
  THEN LET duration == loc.now - m.pinchStartTime
           held == IF DwellElapsed(duration) THEN ScrollZoom(m, loc) ELSE m
       IN [held EXCEPT !.lastScrollX = loc.cx,
                       !.lastScrollY = loc.cy,
                       !.lastHandScale = loc.currentScale,
                       !.duration = duration]
  ELSE m

\* (variant: the click goes to the last position of the pinch)
PinchReleaseBlockClicksAtLastHold(m, loc) ==
  IF PinchRelease(loc.isPinching, wasPinching)
  THEN LET duration == loc.now - m.pinchStartTime
           up == dispatchPointerEvent("pointerup", loc.cx, loc.cy, 0, loc.el)
           click == IF ClickAllowed(m.isScrolling, duration)
                    THEN dispatchClickEvent(m.lastScrollX, m.lastScrollY, loc.el)
                    ELSE <<>>
       IN [m EXCEPT !.out = @ \o up \o click,
                    !.isScrolling = FALSE,
                    !.duration = duration]
  ELSE m

\* (variant: the release leaves scroll mode on)
PinchReleaseBlockKeepsScrolling(m, loc) ==
  IF PinchRelease(loc.isPinching, wasPinching)
  THEN LET duration == loc.now - m.pinchStartTime
           up == dispatchPointerEvent("pointerup", loc.cx, loc.cy, 0, loc.el)
           click == IF ClickAllowed(m.isScrolling, duration)
                    THEN dispatchClickEvent(loc.cx, loc.cy, loc.el)
                    ELSE <<>>
       IN [m EXCEPT !.out = @ \o up \o click,
                    !.duration = duration]
  ELSE m

\* 3. Pinch Release
PinchReleaseBlock(m, loc) ==
  IF PinchRelease(loc.isPinching, wasPinching)
  THEN LET duration == loc.now - m.pinchStartTime
           up == dispatchPointerEvent("pointerup", loc.cx, loc.cy, 0, loc.el)
           click == IF ClickAllowed(m.isScrolling, duration)
                    THEN dispatchClickEvent(loc.cx, loc.cy, loc.el)
                    ELSE <<>>
       IN [m EXCEPT !.out = @ \o up \o click,
                    !.isScrolling = FALSE,
                    !.duration = duration]
  ELSE m

\* The last pointerdown/pointerup among the calls of a frame, else the earlier one.
RECURSIVE LastPress(_, _)
LastPress(prev, out) ==
  IF out = <<>> THEN prev
  ELSE IF out[Len(out)].type \in {"pointerdown", "pointerup"} THEN out[Len(out)].type
  ELSE LastPress(prev, SubSeq(out, 1, Len(out) - 1))

\* (variant: the update is sent only while the hand pinches)
SendUpdateWhenDown(x, y, isDown, gesture) ==
  IF callback # Null /\ isDown THEN <<[x |-> x, y |-> y, isDown |-> isDown, gesture |-> gesture]>> ELSE <<>>
\* if (this.callback) this.callback({x, y, isDown, gesture})
SendUpdate(x, y, isDown, gesture) ==
  IF callback # Null THEN <<[x |-> x, y |-> y, isDown |-> isDown, gesture |-> gesture]>> ELSE <<>>

\* The calls a hand frame makes, by name, in the order it makes them: the
\* dispatches of lines 134-200, then the callback of line 210
\* (variant: the callback is called first)
CallOrderUpdateFirst(out, upd) ==
  [i \in 1..Len(upd) |-> "onUpdate"] \o [i \in 1..Len(out) |-> out[i].type]
CallOrder(out, upd) ==
  [i \in 1..Len(out) |-> out[i].type] \o [i \in 1..Len(upd) |-> "onUpdate"]

\* A frame in which the detector reported a hand (lines 92-216).
HandFrame(lm, t, el) ==
  \E rawX \in {RawX(lm)}, rawY \in {RawY(lm)} :
  \E loc \in {[cx |-> Lerp(cursorX, rawX), cy |-> Lerp(cursorY, rawY),
               isPinching |-> IsPinching(lm), currentScale |-> CurrentScale(lm),
               now |-> t, el |-> el]} :
  \E started \in {PinchStartBlock(Entry(loc), loc)} :
  \E held \in {PinchHoldBlock(started, loc)} :
  \E m \in {PinchReleaseBlock(held, loc)} :
     /\ LerpExact(cursorX, rawX)
     /\ LerpExact(cursorY, rawY)
     /\ UNCHANGED paint
     /\ targetX' = rawX
     /\ targetY' = rawY
     /\ cursorX' = loc.cx
     /\ cursorY' = loc.cy
     /\ pinchStartTime' = m.pinchStartTime
     /\ isScrolling' = m.isScrolling
     /\ lastScrollX' = m.lastScrollX
     /\ lastScrollY' = m.lastScrollY
     /\ lastHandScale' = m.lastHandScale
     /\ wasPinching' = loc.isPinching
     /\ effects' = m.out
     /\ updates' = SendUpdate(loc.cx, loc.cy, loc.isPinching, m.gesture)
     /\ lastPress' = LastPress(lastPress, m.out)
     /\ sessionLog' = IF ~wasPinching /\ ~loc.isPinching THEN <<>>
                      ELSE (IF wasPinching THEN sessionLog ELSE <<>>) \o Presses(m.out)
     /\ sessionScrolls' = IF ~wasPinching /\ ~loc.isPinching THEN {}
                          ELSE (IF wasPinching THEN sessionScrolls ELSE {}) \cup Scrolls(m.out)
     /\ sessionOrigin' = IF wasPinching THEN sessionOrigin
                         ELSE IF loc.isPinching
                              THEN [x |-> loc.cx, y |-> loc.cy, scale |-> loc.currentScale]
                              ELSE NoOrigin
     /\ frame' = [kind |-> "hand",
                  calls |-> CallOrder(m.out, SendUpdate(loc.cx, loc.cy, loc.isPinching, m.gesture)),
                  tipX |-> lm.indexTip.x, tipY |-> lm.indexTip.y,
                  dx |-> lm.indexTip.x - lm.thumbTip.x, dy |-> lm.indexTip.y - lm.thumbTip.y,
                  isPinching |-> loc.isPinching,
                  currentScale |-> loc.currentScale, now |-> t, gesture |-> m.gesture,
                  wasPinching |-> wasPinching, wasScrolling |-> isScrolling,
                  duration |-> m.duration, deltaX |-> m.deltaX, deltaY |-> m.deltaY,
                  scaleDelta |-> m.scaleDelta]

\* (variant: a pass without a hand releases the press of an open session)
NoHandFrameReleases(kind) ==
  /\ UNCHANGED <<smoother, pinchStartTime, lastScrollX, lastScrollY, lastHandScale, lastPress, paint>>
  /\ sessionLog' = <<>>
  /\ sessionScrolls' = {}
  /\ sessionOrigin' = NoOrigin
  /\ wasPinching' = FALSE
  /\ isScrolling' = FALSE
  /\ effects' = IF wasPinching
                THEN dispatchPointerEvent("pointerup", cursorX, cursorY, 0, NoElement)
                ELSE <<>>
  /\ updates' = <<>>
  /\ frame' = NoFrame(kind)

\* (variant: a pass without a hand ends the pinch session)
NoHandFrameEndsSession(kind) ==
  /\ UNCHANGED <<smoother, pinchStartTime, lastScrollX, lastScrollY, lastHandScale, lastPress, paint>>
  /\ sessionLog' = <<>>
  /\ sessionScrolls' = {}
  /\ sessionOrigin' = NoOrigin
  /\ wasPinching' = FALSE
  /\ isScrolling' = FALSE
  /\ effects' = <<>>
  /\ updates' = <<>>
  /\ frame' = NoFrame(kind)

\* A pass of detectLoop that processes no hand: nothing but the pass is recorded.
NoHandFrame(kind) ==
  /\ UNCHANGED <<smoother, session, lastPress, paint>>
  /\ sessionLog' = IF wasPinching THEN sessionLog ELSE <<>>
  /\ sessionScrolls' = IF wasPinching THEN sessionScrolls ELSE {}
  /\ sessionOrigin' = IF wasPinching THEN sessionOrigin ELSE NoOrigin
  /\ effects' = <<>>
  /\ updates' = <<>>
  /\ frame' = NoFrame(kind)

\* (variant: no lastVideoTime guard, the detector runs in every pass)
DetectLoopBodyEveryPass(v, vt, t, landmarks, el) ==
  IF v # Null /\ handLandmarker # Null
  THEN /\ lastVideoTime' = vt
       /\ IF Len(landmarks) > 0
          THEN HandFrame(landmarks[1], t, el)
          ELSE NoHandFrame("nohand")
  ELSE /\ UNCHANGED lastVideoTime
       /\ NoHandFrame("idle")

\* The body of detectLoop up to the requestAnimationFrame call, with this.video
\* = v; vt is video.currentTime, t is Date.now(), landmarks is result.landmarks
\* and el the element under the cursor point.
DetectLoopBody(v, vt, t, landmarks, el) ==
  IF v # Null /\ handLandmarker # Null
  THEN IF vt # lastVideoTime
       THEN /\ lastVideoTime' = vt
            /\ IF Len(landmarks) > 0
               THEN HandFrame(landmarks[1], t, el)
               ELSE NoHandFrame("nohand")
       ELSE /\ UNCHANGED lastVideoTime
            /\ NoHandFrame("stale")
  ELSE /\ UNCHANGED lastVideoTime
       /\ NoHandFrame("idle")

\* requestAnimationFrame returns a handle not in use; handles are only compared
\* for equality, so the least free one stands for the fresh one.
NewHandle(queue) == CHOOSE n \in 1..(Cardinality(queue) + 1) : n \notin queue

\* A step outside detectLoop dispatches nothing.
Quiet ==
  /\ frame' = NoFrame("none")
  /\ effects' = <<>>
  /\ updates' = <<>>
  /\ sessionLog' = IF wasPinching THEN sessionLog ELSE <<>>
  /\ sessionScrolls' = IF wasPinching THEN sessionScrolls ELSE {}
  /\ sessionOrigin' = IF wasPinching THEN sessionOrigin ELSE NoOrigin
  /\ UNCHANGED <<lastPress, paint>>

\* ------------------------------------------------------------- connect()
\* connect(onUpdate) up to its first await (FilesetResolver.forVisionTasks)
Connect(i) ==
  /\ pc[i] = "idle"
  /\ \A j \in Tasks : j < i => pc[j] # "idle"
  /\ callback' = "onUpdate"
  /\ pc' = [pc EXCEPT ![i] = "vision"]
  /\ stopped' = FALSE
  /\ Quiet
  /\ UNCHANGED <<handLandmarker, video, animationId, lastVideoTime, smoother, session,
                 rafQueue, videoTime, clock, resources>>

\* forVisionTasks resolved; HandLandmarker.createFromOptions is awaited
VisionResolved(i) ==
  /\ pc[i] = "vision"
  /\ pc' = [pc EXCEPT ![i] = "landmarker"]
  /\ Quiet
  /\ UNCHANGED <<service, smoother, session, rafQueue, videoTime, clock, resources, stopped>>

\* Either await of initializeHandTracking rejects: connect's catch logs it.
InitFailed(i) ==
  /\ pc[i] \in {"vision", "landmarker"}
  /\ pc' = [pc EXCEPT ![i] = "failed"]
  /\ Quiet
  /\ UNCHANGED <<service, smoother, session, rafQueue, videoTime, clock, resources, stopped>>

\* createFromOptions resolved: the handle is stored, startCamera appends its
\* hidden video element and awaits getUserMedia.
LandmarkerCreated(i) ==
  /\ pc[i] = "landmarker"
  /\ handLandmarker' = "open"
  /\ landmarkersOpen' = landmarkersOpen + 1
  /\ videosInDom' = videosInDom + 1
  /\ pc' = [pc EXCEPT ![i] = "stream"]
  /\ Quiet
  /\ UNCHANGED <<video, animationId, lastVideoTime, callback, smoother, session,
                 rafQueue, videoTime, clock, streamsLive, stopped>>

\* (variant: the rejection escapes connect())
CameraFailedUncaught(i) ==
  /\ pc[i] = "stream"
  /\ pc' = [pc EXCEPT ![i] = "raised"]
  /\ Quiet
  /\ UNCHANGED <<service, smoother, session, rafQueue, videoTime, clock, resources, stopped>>

\* getUserMedia rejects: connect's catch logs it; the element stays appended.
CameraFailed(i) ==
  /\ pc[i] = "stream"
  /\ pc' = [pc EXCEPT ![i] = "failed"]
  /\ Quiet
  /\ UNCHANGED <<service, smoother, session, rafQueue, videoTime, clock, resources, stopped>>

\* getUserMedia resolved: video.srcObject = stream; loadedmetadata is awaited
StreamAcquired(i) ==
  /\ pc[i] = "stream"
  /\ streamsLive' = streamsLive + 1
  /\ pc' = [pc EXCEPT ![i] = "metadata"]
  /\ Quiet
  /\ UNCHANGED <<service, smoother, session, rafQueue, videoTime, clock,
                 landmarkersOpen, videosInDom, stopped>>

\* loadedmetadata: video.play(), this.video = video, and connect calls
\* detectLoop() itself, which runs one pass and requests the next frame.
MetadataLoaded(i, t, landmarks, el) ==
  /\ pc[i] = "metadata"
  /\ t >= clock
  /\ pc' = [pc EXCEPT ![i] = "done"]
  /\ video' = "video"
  /\ videoTime' = 0
  /\ clock' = t
  /\ DetectLoopBody("video", 0, t, landmarks, el)
  /\ animationId' = NewHandle(rafQueue)
  /\ rafQueue' = rafQueue \cup {NewHandle(rafQueue)}
  /\ UNCHANGED <<handLandmarker, callback, resources, stopped>>

\* ------------------------------------------------------------ detectLoop
\* The animation-frame callback with handle r runs detectLoop.
Tick(r, vt, t, landmarks, el) ==
  /\ r \in rafQueue
  /\ vt \in {videoTime, videoTime + 1}
  /\ vt <= MaxVideoTime
  /\ t >= clock
  /\ videoTime' = vt
  /\ clock' = t
  /\ DetectLoopBody(video, vt, t, landmarks, el)
  /\ animationId' = NewHandle(rafQueue \ {r})
  /\ rafQueue' = (rafQueue \ {r}) \cup {NewHandle(rafQueue \ {r})}
  /\ UNCHANGED <<handLandmarker, video, callback, pc, resources, stopped>>

\* ------------------------------------------------------------ disconnect()
\* What disconnect() reads and writes: the fields, the animation-frame queue
\* and the resources.
Held ==
  [animationId |-> animationId, rafQueue |-> rafQueue, video |-> video,
   handLandmarker |-> handLandmarker, streamsLive |-> streamsLive,
   videosInDom |-> videosInDom, landmarkersOpen |-> landmarkersOpen]

\* (variant: the detector handle is closed but kept)
disconnectKeepsHandle(s) ==
  [s EXCEPT !.rafQueue = IF s.animationId # 0 THEN @ \ {s.animationId} ELSE @,
            !.streamsLive = IF s.video # Null THEN @ - 1 ELSE @,
            !.videosInDom = IF s.video # Null THEN @ - 1 ELSE @,
            !.video = Null,
            !.landmarkersOpen = IF s.handLandmarker # Null THEN @ - 1 ELSE @]

\* The body of disconnect() on those
disconnect(s) ==
  [s EXCEPT !.rafQueue = IF s.animationId # 0 THEN @ \ {s.animationId} ELSE @,
            !.streamsLive = IF s.video # Null THEN @ - 1 ELSE @,
            !.videosInDom = IF s.video # Null THEN @ - 1 ELSE @,
            !.video = Null,
            !.landmarkersOpen = IF s.handLandmarker # Null THEN @ - 1 ELSE @,
            !.handLandmarker = Null]

Disconnect ==
  /\ \E s \in {disconnect(Held)} :
       /\ rafQueue' = s.rafQueue
       /\ streamsLive' = s.streamsLive
       /\ videosInDom' = s.videosInDom
       /\ video' = s.video
       /\ landmarkersOpen' = s.landmarkersOpen
       /\ handLandmarker' = s.handLandmarker
  /\ stopped' = TRUE
  /\ Quiet
  /\ UNCHANGED <<animationId, lastVideoTime, callback, smoother, session, pc, videoTime, clock>>

\* --------------------------------------------------------- specifications
\* The environment's inputs: the hands the detector may report, the instants
\* Date.now() may return, the elements a hit-test may find.
Detections(hands) == {<<>>} \cup {<<h>> : h \in hands}

\* A hand at the screen centre, open or pinching.
OpenHand == Hand(500, 500, 200, 0, 100)
PinchedHand == Hand(500, 500, 30, 0, 100)

LifeHands == {OpenHand, PinchedHand}
LifeInstants == {0, 300}
LifeHits == {3}

\* The detector is consulted only in a pass that finds the video, the detector
\* and a new video frame, and a hit-test is made only in a hand frame: the
\* other passes read neither input.
Detects(v, vt) == v # Null /\ handLandmarker # Null /\ vt # lastVideoTime

Started(i, instants, hands, hits) ==
  \E t \in instants :
  \E d \in IF Detects("video", 0) THEN Detections(hands) ELSE {<<>>} :
  \E el \in IF d # <<>> THEN hits ELSE {NoElement} :
     MetadataLoaded(i, t, d, el)

Frame(instants, hands, hits) ==
  \E r \in rafQueue, vt \in {videoTime, videoTime + 1}, t \in instants :
  \E d \in IF Detects(video, vt) THEN Detections(hands) ELSE {<<>>} :
  \E el \in IF d # <<>> THEN hits ELSE {NoElement} :
     Tick(r, vt, t, d, el)

\* Every interleaving of connect() calls, their asynchronous steps and
\* failures, animation frames and disconnect().
Next ==
  \/ \E i \in Tasks : Connect(i)
  \/ \E i \in Tasks : VisionResolved(i)
  \/ \E i \in Tasks : InitFailed(i)
  \/ \E i \in Tasks : LandmarkerCreated(i)
  \/ \E i \in Tasks : CameraFailed(i)
  \/ \E i \in Tasks : StreamAcquired(i)
  \/ \E i \in Tasks : Started(i, LifeInstants, LifeHands, LifeHits)
  \/ Frame(LifeInstants, LifeHands, LifeHits)
  \/ Disconnect

Spec == Init /\ [][Next]_vars

\* One successful connect() and then frames, with the release and dwell
\* boundaries among the instants.
TimingInstants == {0, 1, 200, 201, 500, 1800, 1801, 2000, 2001}
TimingHits == {NoElement, 3}

Connected ==
  \/ Connect(1)
  \/ VisionResolved(1)
  \/ LandmarkerCreated(1)
  \/ StreamAcquired(1)

NextTiming ==
  \/ Connected
  \/ Started(1, TimingInstants, LifeHands, TimingHits)
  \/ Frame(TimingInstants, LifeHands, TimingHits)

SpecTiming == Init /\ [][NextTiming]_vars

\* One successful connect() and then frames in which the hand moves and its
\* scale changes, before and after the dwell.
ScrollInstants == {0, 1999, 2001}
ScrollHands ==
  {Hand(ix, 500, 30, 0, scale) : ix \in {500, 450}, scale \in {100, 102, 103}}
    \cup {OpenHand}
ScrollHits == {NoElement, 3}

NextScroll ==
  \/ Connected
  \/ Started(1, ScrollInstants, ScrollHands, ScrollHits)
  \/ Frame(ScrollInstants, ScrollHands, ScrollHits)

SpecScroll == Init /\ [][NextScroll]_vars

\* One successful connect() and then frames in which the pinching hand rests,
\* moves 1 px or 10 px right or 10 px down per frame once smoothed, over
\* nothing, over an element inside a scroll container and over one with no
\* scrollable ancestor.
PanInstants == {0, 2001}
PanHands ==
  {Hand(500, 500, 30, 0, 100), Hand(495, 500, 30, 0, 100), Hand(450, 500, 30, 0, 103),
   Hand(500, 450, 30, 0, 100), OpenHand}
PanHits == {NoElement, 3, 5}

NextPan ==
  \/ Connected
  \/ Started(1, PanInstants, PanHands, PanHits)
  \/ Frame(PanInstants, PanHands, PanHits)

SpecPan == Init /\ [][NextPan]_vars

\* One successful connect() and then frames of a long pinch: the hand pinches
\* at the centre, moves so that the smoothed cursor goes 50 px right in one
\* frame while its scale grows by 0.01, rests there, and opens there.
LongInstants == {0, 1000, 2001, 2500}
LongHands ==
  {Hand(500, 500, 30, 0, 100), Hand(250, 500, 30, 0, 110), Hand(450, 500, 30, 0, 110),
   Hand(450, 500, 200, 0, 110)}
LongHits == {3}

NextLong ==
  \/ Connected
  \/ Started(1, LongInstants, LongHands, LongHits)
  \/ Frame(LongInstants, LongHands, LongHits)

SpecLong == Init /\ [][NextLong]_vars

\* One successful connect() and then frames in which the thumb tip is 0.059,
\* 0.06 or 0.061 from the index tip along x, or at (0.036, 0.048) (0.06 away)
\* or (0.035, 0.048) (just inside) from it.
PinchInstants == {0, 300}
PinchHands ==
  {Hand(500, 500, gx, 0, 100) : gx \in {59, 60, 61}}
    \cup {Hand(500, 500, 36, 48, 100), Hand(500, 500, 35, 48, 100)}
PinchHits == {3}

NextPinch ==
  \/ Connected
  \/ Started(1, PinchInstants, PinchHands, PinchHits)
  \/ Frame(PinchInstants, PinchHands, PinchHits)

SpecPinch == Init /\ [][NextPinch]_vars

\* The animation-frame callback with handle r runs detectLoop and
\* detectForVideo throws: lastVideoTime is already stored, the exception leaves
\* detectLoop before requestAnimationFrame is reached.
TickThrows(r, vt) ==
  /\ r \in rafQueue
  /\ vt \in {videoTime, videoTime + 1}
  /\ vt <= MaxVideoTime
  /\ Detects(video, vt)
  /\ videoTime' = vt
  /\ lastVideoTime' = vt
  /\ NoHandFrame("threw")
  /\ rafQueue' = rafQueue \ {r}
  /\ UNCHANGED <<handLandmarker, video, animationId, callback, pc, clock, resources, stopped>>

\* loadedmetadata, and detectForVideo throws in the pass connect() makes
\* itself: connect's catch logs it, no animation frame is requested.
MetadataLoadedThrows(i) ==
  /\ pc[i] = "metadata"
  /\ Detects("video", 0)
  /\ pc' = [pc EXCEPT ![i] = "failed"]
  /\ video' = "video"
  /\ videoTime' = 0
  /\ lastVideoTime' = 0
  /\ NoHandFrame("threw")
  /\ UNCHANGED <<handLandmarker, animationId, callback, rafQueue, clock, resources, stopped>>

\* One connect(), frames in which the detector may throw, and disconnect().
FrameThrows == \E r \in rafQueue, vt \in {videoTime, videoTime + 1} : TickThrows(r, vt)

NextFault ==
  \/ Connected
  \/ Started(1, LifeInstants, LifeHands, LifeHits)
  \/ MetadataLoadedThrows(1)
  \/ Frame(LifeInstants, LifeHands, LifeHits)
  \/ FrameThrows
  \/ Disconnect

SpecFault == Init /\ [][NextFault]_vars

\* One connect() and pinches held into scroll mode over every element of the
\* page and over none, with and without motion.
DomInstants == {0, 2001}
DomHands == {Hand(500, 500, 30, 0, 100), Hand(450, 500, 30, 0, 100)}
DomHits == Nodes \cup {NoElement}

NextDom ==
  \/ Connected
  \/ Started(1, DomInstants, DomHands, DomHits)
  \/ Frame(DomInstants, DomHands, DomHits)

SpecDom == Init /\ [][NextDom]_vars

\* One connect() under a camera that loses the hand after every frame in which
\* it saw one: a hand frame other than the first directly follows a pass in
\* which the detector reported no hand.
HandLost == frame.kind # "nohand" /\ Frame(TimingInstants, {}, TimingHits)
HandBack == frame.kind = "nohand" /\ Frame(TimingInstants, LifeHands, TimingHits)

NextGap ==
  \/ Connected
  \/ Started(1, TimingInstants, LifeHands, TimingHits)
  \/ HandLost
  \/ HandBack

SpecGap == Init /\ [][NextGap]_vars

\* One connect() and pinches that move and grow, released around the band
\* between the click window and the dwell.
BandInstants == {0, 1000, 1800, 2000, 2001}
BandHands == {Hand(500, 500, 30, 0, 100), Hand(450, 500, 30, 0, 110), Hand(450, 500, 200, 0, 110)}
BandHits == {3}

NextBand ==
  \/ Connected
  \/ Started(1, BandInstants, BandHands, BandHits)
  \/ Frame(BandInstants, BandHands, BandHits)

SpecBand == Init /\ [][NextBand]_vars

\* One connect() and hands whose index tip is at a corner of the camera image
\* or at its centre, every landmark within [0, 1].
EdgeInstants == {0}
EdgeHands ==
  {Hand(0, 0, -200, 0, 100), Hand(1000, 1000, 200, 0, 100), Hand(0, 1000, -30, 0, 100),
   Hand(1000, 0, 30, 0, 100), OpenHand}
EdgeHits == {3}

NextEdge ==
  \/ Connected
  \/ Started(1, EdgeInstants, EdgeHands, EdgeHits)
  \/ Frame(EdgeInstants, EdgeHands, EdgeHits)

SpecEdge == Init /\ [][NextEdge]_vars

\* ------------------------------------------------------------ PaintCanvas
\* canvas.getBoundingClientRect(): the canvas sits 16 px from the left edge
\* and 80 px from the top of the viewport
rect == [left |-> 16, top |-> 80]

\* Screen coordinates to canvas coordinates (lines 43-45)
ToCanvas(c) == [none |-> FALSE, x |-> c.x - rect.left, y |-> c.y - rect.top]

\* ctx.beginPath() ... ctx.stroke() from lastPos.current to (x, y) (lines
\* 54-60); lastPos.current!.x throws a TypeError when the ref holds null
Segment(last, pos, tool) ==
  IF last.none
  THEN [kind |-> "TypeError", from |-> last, to |-> pos, tool |-> tool]
  ELSE [kind |-> "segment", from |-> last, to |-> pos, tool |-> tool]

\* (variant: an update with isDown false leaves the stroke open)
DrawingLogicNoRelease(c, drawing, last, tool) ==
  IF c.isDown
  THEN IF ~drawing
       THEN [setIsDrawing |-> TRUE, lastPos |-> ToCanvas(c), stroke |-> NoStroke]
       ELSE [setIsDrawing |-> drawing, lastPos |-> ToCanvas(c),
             stroke |-> Segment(last, ToCanvas(c), tool)]
  ELSE [setIsDrawing |-> drawing, lastPos |-> last, stroke |-> NoStroke]

\* The body of the drawing effect past its guards (lines 43-66) for cursor c,
\* the isDrawing of the render it belongs to and lastPos.current = last: the
\* isDrawing it leaves queued, the lastPos it leaves and what it draws.  A
\* run that throws at line 55 has not reached line 61.
DrawingLogic(c, drawing, last, tool) ==
  IF c.isDown
  THEN IF ~drawing
       THEN [setIsDrawing |-> TRUE, lastPos |-> ToCanvas(c), stroke |-> NoStroke]
       ELSE [setIsDrawing |-> drawing,
             lastPos |-> IF last.none THEN last ELSE ToCanvas(c),
             stroke |-> Segment(last, ToCanvas(c), tool)]
  ELSE [setIsDrawing |-> FALSE, lastPos |-> NoPos, stroke |-> NoStroke]

\* A render commits with cursor c, settings s and the queued isDrawing, and
\* its drawing effect runs (lines 37-67); the effect returns at once when
\* the canvas has no 2d context.
EffectRun(c, s) ==
  /\ stroke.kind # "TypeError"
  /\ cursor' = c
  /\ settings' = s
  /\ isDrawing' = queuedIsDrawing
  /\ UNCHANGED ctx
  /\ IF ctx = Null
     THEN /\ UNCHANGED <<queuedIsDrawing, lastPos, processed>>
          /\ stroke' = NoStroke
     ELSE \E r \in {DrawingLogic(c, queuedIsDrawing, lastPos, s)} :
            /\ queuedIsDrawing' = r.setIsDrawing
            /\ lastPos' = r.lastPos
            /\ stroke' = r.stroke
            /\ processed' = [none |-> FALSE, x |-> c.x, y |-> c.y, isDown |-> c.isDown]
  /\ UNCHANGED engine

\* The cursor updates App hands down (setCursor(data), a new object each time)
PaintCursors == [x : {0, 100, 200, 300}, y : {0, 100}, isDown : BOOLEAN]
PaintTools == {"BRUSH", "ERASER"}

\* A new cursor prop, together with whatever setIsDrawing has queued
CursorChanged == \E c \in PaintCursors : EffectRun(c, settings)
\* The re-render that setIsDrawing asked for, the cursor as it was
IsDrawingChanged == queuedIsDrawing # isDrawing /\ EffectRun(cursor, settings)
\* New settings, the cursor as it was
SettingsChanged == \E s \in PaintTools \ {settings} : EffectRun(cursor, s)

InitPaint == EngineInit /\ \E c \in {"2d", Null} : CanvasInit(c)

NextPaint ==
  \/ IsDrawingChanged
  \/ SettingsChanged
  \/ CursorChanged

SpecPaint == InitPaint /\ [][NextPaint]_vars

\* The smoothing alone: the cursor starts up to MaxOffset grid points from a
\* target on either side on each axis, and every hand frame reports that same
\* target.
InitSmooth ==
  /\ handLandmarker = "open"
  /\ video = "video"
  /\ animationId = 0
  /\ lastVideoTime = -1
  /\ callback = "onUpdate"
  /\ targetX = (innerWidth * Unit) \div 2
  /\ targetY = (innerHeight * Unit) \div 2
  /\ cursorX \in (targetX - MaxOffset)..(targetX + MaxOffset)
  /\ cursorY \in (targetY - MaxOffset)..(targetY + MaxOffset)
  /\ wasPinching = FALSE
  /\ pinchStartTime = 0
  /\ isScrolling = FALSE
  /\ lastScrollX = 0
  /\ lastScrollY = 0
  /\ lastHandScale = 0
  /\ pc = [i \in Tasks |-> "done"]
  /\ rafQueue = {}
  /\ videoTime = 0
  /\ clock = 0
  /\ landmarkersOpen = 1
  /\ videosInDom = 1
  /\ streamsLive = 1
  /\ frame = NoFrame("none")
  /\ effects = <<>>
  /\ updates = <<>>
  /\ stopped = FALSE
  /\ lastPress = "none"
  /\ sessionLog = <<>>
  /\ sessionScrolls = {}
  /\ sessionOrigin = NoOrigin
  /\ CanvasInit("2d")

\* Lines 104-109 of a hand frame whose landmark maps to the target already held
SmoothFrame ==
  /\ lastVideoTime < MaxVideoTime
  /\ lastVideoTime' = lastVideoTime + 1
  /\ UNCHANGED <<targetX, targetY>>
  /\ cursorX' = LerpRounded(cursorX, targetX)
  /\ cursorY' = LerpRounded(cursorY, targetY)
  /\ UNCHANGED <<handLandmarker, video, animationId, callback, session, pc, rafQueue,
                 videoTime, clock, resources, frame, effects, updates, stopped, lastPress,
                 sessionLog, sessionScrolls, sessionOrigin, paint>>

SpecSmooth == InitSmooth /\ [][SmoothFrame]_vars

\* ------------------------------------------------------------- properties
Count(type) == Len(OfType(effects, type))

\* The last step processed a hand frame; which of the three pinch blocks ran.
HandSeen == frame.kind = "hand"
StartSeen == HandSeen /\ frame.isPinching /\ ~frame.wasPinching
HoldSeen == HandSeen /\ frame.isPinching /\ frame.wasPinching
ReleaseSeen == HandSeen /\ ~frame.isPinching /\ frame.wasPinching

\* now - pinchStartTime of the frame just processed
Elapsed == frame.now - pinchStartTime

\* C1: once disconnect() has been called (and connect() not again), no event
\* reaches an element and onUpdate is not invoked, whatever connect() was
\* doing when disconnect() ran.
C1_SilentAfterDisconnect == stopped => (Delivered(effects) = <<>> /\ updates = <<>>)

\* C2: a pass in which the detector reports no hand leaves the cursor and the
\* pinch session fields as they were, dispatches nothing and does not call
\* onUpdate.
C2_NoHandChangesNothing ==
  [][frame'.kind = "nohand" =>
       /\ UNCHANGED <<cursorX, cursorY, wasPinching, pinchStartTime, isScrolling,
                      lastScrollX, lastScrollY, lastHandScale>>
       /\ effects' = <<>>
       /\ updates' = <<>>]_vars

\* C2 witness: a hand-less pass in the middle of a pinch session in scroll mode
C2_Witness == frame.kind = "nohand" /\ wasPinching /\ isScrolling

\* C3: a release of a session that never scrolled issues no click after
\* exactly 200 ms and exactly one click after 201 ms.
C3_LowerClickBoundary ==
  (ReleaseSeen /\ ~frame.wasScrolling) =>
     /\ (Elapsed = 200 => Count("click") = 0)
     /\ (Elapsed = 201 => Count("click") = 1)

\* C3 witness: a release 201 ms after the pinch began, with its click
C3_Witness == ReleaseSeen /\ Elapsed = 201 /\ Count("click") = 1

\* C4 as stated: a release after exactly 1800 ms issues a click, one after
\* 1801 ms none.
C4_UpperClickBoundary ==
  (ReleaseSeen /\ ~frame.wasScrolling) =>
     /\ (Elapsed = 1800 => Count("click") = 1)
     /\ (Elapsed = 1801 => Count("click") = 0)

\* C4 amended: the window is open above: a release after 1799 ms issues
\* exactly one click, a release after 1800 ms or 1801 ms none.
C4_UpperClickBoundaryOpen ==
  (ReleaseSeen /\ ~frame.wasScrolling) =>
     /\ (Elapsed = 1799 => Count("click") = 1)
     /\ (Elapsed \in {1800, 1801} => Count("click") = 0)

\* C4 witness: a release 1799 ms after the pinch began, with its click
C4_Witness == ReleaseSeen /\ Elapsed = 1799 /\ Count("click") = 1

\* The gesture handed to onUpdate by the frame just processed
Reported(gesture) == Len(updates) = 1 /\ updates[1].gesture = gesture

\* C5 as stated: a continuing pinch whose elapsed time is >= 2000 ms is in
\* scroll mode and reports SCROLL.
C5_DwellPromotion ==
  (HoldSeen /\ Elapsed >= 2000) => (isScrolling /\ Reported("SCROLL"))

\* C5 amended: a continuing pinch whose elapsed time exceeds 2000 ms is in
\* scroll mode and reports SCROLL; at exactly 2000 ms it is not and reports
\* PINCH.
C5_DwellPromotionStrict ==
  /\ (HoldSeen /\ Elapsed > 2000) => (isScrolling /\ Reported("SCROLL"))
  /\ (HoldSeen /\ Elapsed = 2000) => (~isScrolling /\ Reported("PINCH"))

\* C5 witness: the frame 2001 ms after the pinch began, promoted
C5_Witness == HoldSeen /\ Elapsed = 2001 /\ ~frame.wasScrolling /\ isScrolling

\* C6: a click is issued only by a release frame of a session not in scroll
\* mode whose duration is inside the window; scroll mode, once entered, lasts
\* while the pinch continues, and the release of such a session issues no click.
C6_ClickOnlyOnUnscrolledRelease ==
  /\ Count("click") > 0 =>
       (ReleaseSeen /\ ~frame.wasScrolling /\ Elapsed > 200 /\ Elapsed < 1800)
  /\ (HoldSeen /\ frame.wasScrolling) => isScrolling
  /\ (ReleaseSeen /\ frame.wasScrolling) => Count("click") = 0

\* C6 witness: the release of a session that had entered scroll mode
C6_Witness == ReleaseSeen /\ frame.wasScrolling /\ Count("pointerup") = 1

\* C7: a frame of a pinch session whose elapsed time is below 2000 ms is not
\* in scroll mode, reports PINCH while the pinch lasts (never SCROLL), and
\* issues no scrollBy and no wheel event, however far the cursor and the hand
\* scale moved.
C7_NoScrollBeforeDwell ==
  (HandSeen /\ (frame.isPinching \/ frame.wasPinching) /\ Elapsed < 2000) =>
     /\ ~isScrolling
     /\ ~Reported("SCROLL")
     /\ (frame.isPinching => Reported("PINCH"))
     /\ Count("scrollBy") = 0
     /\ Count("wheel") = 0

\* C7 witness: a continuing pinch 1999 ms old whose cursor is on the move and
\* whose hand scale differs from the one the session started with
C7_Witness ==
  /\ HoldSeen /\ Elapsed = 1999
  /\ targetX # cursorX
  /\ frame.currentScale = 103

\* C8: a pointerdown is issued exactly by the hand frames that pinch after a
\* frame that did not, a pointerup exactly by those that do not pinch after
\* one that did, at most one of each per frame and none outside hand frames;
\* a pointerdown never follows a pointerdown, and a pointerup only ever
\* follows a pointerdown.
C8_PressAlternation ==
  [][/\ Len(OfType(effects', "pointerdown")) =
          (IF frame'.kind = "hand" /\ frame'.isPinching /\ ~wasPinching THEN 1 ELSE 0)
     /\ Len(OfType(effects', "pointerup")) =
          (IF frame'.kind = "hand" /\ ~frame'.isPinching /\ wasPinching THEN 1 ELSE 0)
     /\ OfType(effects', "pointerdown") # <<>> => lastPress # "pointerdown"
     /\ OfType(effects', "pointerup") # <<>> => lastPress = "pointerdown"
     /\ frame'.kind = "hand" => wasPinching' = frame'.isPinching]_vars

\* C8 witness: a pointerup issued by a release frame, after the pointerdown
\* of the frame that began the pinch 201 ms earlier
C8_Witness == ReleaseSeen /\ Elapsed = 201 /\ Count("pointerup") = 1 /\ lastPress = "pointerup"

\* C9: a hand frame issues exactly one pointermove, first, at the cursor as
\* smoothed in that frame, with buttons 1 when the frame pinches and 0
\* otherwise, whatever the state of the pinch session.
C9_OneMovePerHandFrame ==
  HandSeen =>
     /\ Count("pointermove") = 1
     /\ effects[1].type = "pointermove"
     /\ effects[1].x = cursorX
     /\ effects[1].y = cursorY
     /\ effects[1].buttons = (IF frame.isPinching THEN 1 ELSE 0)

\* C9 witness: a scroll-mode frame with the cursor away from the centre
C9_Witness == HoldSeen /\ isScrolling /\ cursorX # (innerWidth * Unit) \div 2 /\ Count("pointermove") = 1

\* C10: in a scroll-mode frame, with scaleDelta the hand scale less the
\* previous frame's, |scaleDelta| <= 0.002 issues no wheel event and a larger
\* one exactly one, with deltaY = -scaleDelta * 3000: negative for a growing
\* scale, positive for a shrinking one.
C10_ZoomDeadzone ==
  [][(frame'.kind = "hand" /\ frame'.isPinching /\ wasPinching /\ isScrolling') =>
       LET scaleDelta == frame'.currentScale - lastHandScale
           wheels == OfType(effects', "wheel")
       IN /\ Abs(scaleDelta) <= 2 => wheels = <<>>
          /\ Abs(scaleDelta) > 2 =>
               /\ Len(wheels) = 1
               /\ wheels[1].deltaY = -(scaleDelta * 3000)
               /\ (scaleDelta > 0 => wheels[1].deltaY < 0)
               /\ (scaleDelta < 0 => wheels[1].deltaY > 0)]_vars

\* C10 witness: a scroll-mode frame whose scale grew by 0.003 and whose wheel
\* event carries -9 px
C10_Witness ==
  /\ HoldSeen /\ isScrolling /\ frame.scaleDelta = 3
  /\ Count("wheel") = 1 /\ OfType(effects, "wheel")[1].deltaY = -9000

\* C11: in a scroll-mode frame, with (dx, dy) the cursor less the previous
\* frame's position, no scrollBy is called when |dx| <= 1 and |dy| <= 1;
\* otherwise exactly one scrollBy(-1.5 dx, -1.5 dy) is called on the scroll
\* parent of the element under the cursor when there is one, and none when
\* there is none; in each case the frame makes its zoom check, stores the
\* cursor and the scale as the last position and calls onUpdate once.
C11_Pan ==
  [][(frame'.kind = "hand" /\ frame'.isPinching /\ wasPinching /\ isScrolling') =>
       LET dx == cursorX' - lastScrollX
           dy == cursorY' - lastScrollY
           exceeds == Abs(dx) > Unit \/ Abs(dy) > Unit
           scrollable == getScrollParent(effects'[1].target)
           pans == OfType(effects', "scrollBy")
       IN /\ ~exceeds => pans = <<>>
          /\ (exceeds /\ scrollable = NoElement) => pans = <<>>
          /\ (exceeds /\ scrollable # NoElement) =>
               /\ Len(pans) = 1
               /\ pans[1].target = scrollable
               /\ pans[1].deltaX = -(15 * dx)
               /\ pans[1].deltaY = -(15 * dy)
          /\ Len(OfType(effects', "wheel")) =
               (IF Abs(frame'.currentScale - lastHandScale) > 2 THEN 1 ELSE 0)
          /\ lastScrollX' = cursorX' /\ lastScrollY' = cursorY'
          /\ lastHandScale' = frame'.currentScale
          /\ Len(updates') = 1 /\ updates'[1].gesture = "SCROLL"]_vars

\* C11 witness: a scroll-mode frame that moved 10 px right over an element
\* inside a scroll container, which is scrolled by -15 px
C11_Witness ==
  /\ HoldSeen /\ isScrolling /\ frame.deltaX = 10 * Unit
  /\ Count("scrollBy") = 1
  /\ OfType(effects, "scrollBy")[1].target = 2
  /\ OfType(effects, "scrollBy")[1].deltaX = -(150 * Unit)

\* Scroll-mode frames that call no scrollBy: a move of exactly 1 px, and a
\* move of 10 px over an element with no scrollable ancestor that still
\* zooms and reports.
C11_AtNoiseFloor == HoldSeen /\ isScrolling /\ frame.deltaX = Unit /\ Count("scrollBy") = 0
C11_Dropped ==
  /\ HoldSeen /\ isScrolling /\ frame.deltaX = 10 * Unit /\ effects[1].target = 5
  /\ Count("scrollBy") = 0 /\ Count("wheel") = 1 /\ Len(updates) = 1
C11_Vertical == HoldSeen /\ isScrolling /\ frame.deltaX = 0 /\ frame.deltaY # 0 /\ Count("scrollBy") = 1

\* C12: a pinch session with a resting cursor that is released 500 ms after it
\* began has made, when the release frame is done, exactly the press and click
\* calls pointerdown, pointerup, click, in that order, and no wheel or
\* scrollBy call; until the release it has made the pointerdown alone.
C12_ShortPinch ==
  /\ (ReleaseSeen /\ Elapsed = 500) =>
        (sessionLog = <<"pointerdown", "pointerup", "click">> /\ sessionScrolls = {})
  /\ (HoldSeen /\ Elapsed <= 500) =>
        (sessionLog = <<"pointerdown">> /\ sessionScrolls = {})

\* C12 witness: the release frame 500 ms after the pinch began, the cursor
\* where it was, with the three calls made
C12_Witness ==
  /\ ReleaseSeen /\ Elapsed = 500
  /\ cursorX = (innerWidth * Unit) \div 2
  /\ sessionLog = <<"pointerdown", "pointerup", "click">>

\* The release frame of a pinch that began at t = 0, was seen pinching after
\* 2000 ms and is released at t = 2500 ms, the cursor having moved 50 px
\* right and the hand scale having grown by 0.01 between its first and its
\* last pinching frame.
LongPinchReleased ==
  /\ ReleaseSeen /\ pinchStartTime = 0 /\ frame.now = 2500
  /\ frame.wasScrolling
  /\ lastScrollX - sessionOrigin.x = 50 * Unit
  /\ lastScrollY = sessionOrigin.y
  /\ lastHandScale - sessionOrigin.scale = 10

\* C13 as stated: such a session has issued pointerdown, then pointerup and no
\* click, at least one scrollBy and at least one wheel event with negative
\* deltaY, however the motion and the growth were spread over its frames.
C13_LongPinch ==
  LongPinchReleased =>
     /\ sessionLog = <<"pointerdown", "pointerup">>
     /\ "pan" \in sessionScrolls
     /\ "zoomIn" \in sessionScrolls

\* C13 amended: the session issues pointerdown when it begins and, released
\* at 2500 ms, pointerup and no click; a frame of it calls scrollBy exactly
\* when it continues the pinch more than 2000 ms after its start, the cursor
\* moved more than 1 px since the previous frame and the element under the
\* cursor has a scroll parent, and issues a wheel event with negative deltaY
\* exactly when it continues the pinch more than 2000 ms after its start and
\* the scale grew by more than 0.002 since the previous frame; the scrollBy
\* amounts are -1.5 times that frame's motion.
C13_LongPinchPerFrame ==
  [][(frame'.kind = "hand" /\ wasPinching) =>
       LET dx == cursorX' - lastScrollX
           dy == cursorY' - lastScrollY
           grown == frame'.currentScale - lastHandScale
           dwelt == frame'.isPinching /\ frame'.now - pinchStartTime > 2000
           pans == OfType(effects', "scrollBy")
           panned == /\ dwelt
                     /\ (Abs(dx) > Unit \/ Abs(dy) > Unit)
                     /\ getScrollParent(effects'[1].target) # NoElement
       IN /\ sessionScrolls' = sessionScrolls
                \cup (IF panned THEN {"pan"} ELSE {})
                \cup (IF dwelt /\ grown > 2 THEN {"zoomIn"} ELSE {})
                \cup (IF dwelt /\ grown < -2 THEN {"zoomOut"} ELSE {})
          /\ Len(pans) = (IF panned THEN 1 ELSE 0)
          /\ panned => (pans[1].deltaX = -(15 * dx) /\ pans[1].deltaY = -(15 * dy))
          /\ frame'.isPinching => sessionLog' = <<"pointerdown">>
          /\ (~frame'.isPinching /\ frame'.now - pinchStartTime = 2500) =>
               sessionLog' = <<"pointerdown", "pointerup">>]_vars

\* C13 witness: the long pinch released at 2500 ms whose motion and growth
\* fell in a frame after the dwell: a pan and a zoom-in were issued
C13_Witness ==
  LongPinchReleased /\ sessionLog = <<"pointerdown", "pointerup">>
    /\ sessionScrolls = {"pan", "zoomIn"}

\* C14: a step that processed a hand frame has called onUpdate exactly once,
\* with x and y the cursor as smoothed in that frame and isDown that frame's
\* pinch classification; any other step (a pass without a hand, on a stale
\* video frame or without video or detector, or a step of connect()) has not
\* called it.
C14_OneUpdatePerHandFrame ==
  /\ HandSeen =>
       /\ Len(updates) = 1
       /\ updates[1].x = cursorX
       /\ updates[1].y = cursorY
       /\ updates[1].isDown = frame.isPinching
  /\ ~HandSeen => updates = <<>>

\* C14 witness: an open-hand frame whose cursor is on its way to the target,
\* reported where the cursor is and not down
C14_Witness ==
  /\ HandSeen /\ ~frame.isPinching /\ cursorX # targetX
  /\ updates = <<[x |-> cursorX, y |-> cursorY, isDown |-> FALSE, gesture |-> "OPEN"]>>

\* C15: a connect() whose detector initialisation or camera acquisition
\* failed has returned normally and stays failed: it never starts the frame
\* loop; and while no connect() has completed no animation frame is requested,
\* no video is set, nothing is dispatched and onUpdate is not called.
C15_FailedConnectIsInert ==
  [][/\ \A i \in Tasks : pc'[i] # "raised"
     /\ \A i \in Tasks : pc[i] = "failed" => pc'[i] = "failed"
     /\ (\A i \in Tasks : pc'[i] # "done") =>
          /\ rafQueue' = {} /\ animationId' = 0 /\ video' = Null
          /\ effects' = <<>> /\ updates' = <<>>
          /\ frame'.kind = "none"]_vars

\* C15 witness: the first connect() failed at the camera (its detector is
\* stored) and no frame loop exists
C15_Witness ==
  /\ pc[1] = "failed" /\ pc[2] = "idle" /\ handLandmarker # Null
  /\ rafQueue = {} /\ effects = <<>> /\ updates = <<>>

\* C16: in every state the program reaches, disconnect() called twice in a
\* row leaves what one call leaves, and called before any connect() it
\* changes nothing; it has no precondition.
C16_DisconnectIdempotent ==
  /\ disconnect(disconnect(Held)) = disconnect(Held)
  /\ (\A i \in Tasks : pc[i] = "idle") => disconnect(Held) = Held

\* C16 witness: disconnect() has torn down a running loop with its video and
\* detector, and a further call changes nothing
C16_Witness ==
  /\ stopped /\ (\E i \in Tasks : pc[i] = "done") /\ animationId # 0
  /\ video = Null /\ handLandmarker = Null
  /\ disconnect(Held) = Held

\* C17: once disconnect() has been called after a single connect(), no
\* detector is open, no hidden video element is in the document and no camera
\* stream is live, wherever connect() stood when disconnect() ran.
C17_ReleasedAfterDisconnect ==
  (stopped /\ \A i \in Tasks \ {1} : pc[i] = "idle") =>
     (landmarkersOpen = 0 /\ videosInDom = 0 /\ streamsLive = 0)

\* On one axis, from cursor c to cursor d under target t: the distance did not
\* grow and the cursor did not cross the target.
Approaches(c, d, t) ==
  /\ Abs(t - d) <= Abs(t - c)
  /\ (c <= t => d <= t)
  /\ (c >= t => d >= t)

\* C18 as stated: from one hand frame to the next under the same target, on
\* each axis the distance to the target does not grow, shrinks while it is
\* not zero, and the cursor does not cross the target.
C18_NoOvershoot ==
  [][(lastVideoTime' # lastVideoTime /\ targetX' = targetX /\ targetY' = targetY) =>
       /\ Approaches(cursorX, cursorX', targetX)
       /\ Approaches(cursorY, cursorY', targetY)
       /\ cursorX # targetX => Abs(targetX - cursorX') < Abs(targetX - cursorX)
       /\ cursorY # targetY => Abs(targetY - cursorY') < Abs(targetY - cursorY)]_vars

\* C18 amended: the distance does not grow and the cursor does not cross the
\* target; the distance shrinks while a fifth of it rounds to at least one
\* grid point (it is 3 grid points or more), and the cursor stays where it is,
\* short of the target, once it is within 2 grid points.
C18_NoOvershootOnGrid ==
  [][(lastVideoTime' # lastVideoTime /\ targetX' = targetX /\ targetY' = targetY) =>
       /\ Approaches(cursorX, cursorX', targetX)
       /\ Approaches(cursorY, cursorY', targetY)
       /\ Abs(targetX - cursorX) >= 3 => Abs(targetX - cursorX') < Abs(targetX - cursorX)
       /\ Abs(targetY - cursorY) >= 3 => Abs(targetY - cursorY') < Abs(targetY - cursorY)
       /\ Abs(targetX - cursorX) <= 2 => cursorX' = cursorX
       /\ Abs(targetY - cursorY) <= 2 => cursorY' = cursorY]_vars

\* C18 witness: after three frames under the same target the cursor has come
\* to rest 2 grid points short of it on one axis and is still closing in on
\* the other
C18_Witness ==
  /\ lastVideoTime >= 2
  /\ targetX - cursorX = 2
  /\ cursorY - targetY = 5

\* C19: a hand frame is classified as pinching exactly when the square of the
\* index-tip to thumb-tip distance is below 0.06 squared, whatever the frame
\* before it was: at exactly 0.06 it is not pinching.
C19_PinchThreshold ==
  HandSeen =>
     frame.isPinching = (frame.dx * frame.dx + frame.dy * frame.dy < 60 * 60)

\* C19 witness: right after a pinching frame, a frame whose tips are exactly
\* 0.06 apart (0.036 and 0.048 along the axes), classified as not pinching
C19_Witness ==
  /\ HandSeen /\ frame.wasPinching
  /\ frame.dx = 36 /\ frame.dy = 48
  /\ ~frame.isPinching /\ ~wasPinching

\* C20: wasPinching starts false, every step that processed a hand frame
\* leaves it equal to that frame's classification and every other step leaves
\* it as it was, so it always tells whether the last hand frame processed was
\* pinching; and isScrolling is never true while wasPinching is false.
C20_SessionOpenIffLastFramePinched ==
  [][/\ frame'.kind = "hand" => wasPinching' = frame'.isPinching
     /\ frame'.kind # "hand" => wasPinching' = wasPinching
     /\ isScrolling' => wasPinching'
     /\ ~wasPinching => ~isScrolling]_vars

\* C20 witness: a pass on a video frame already seen, while a session in
\* scroll mode is open
C20_Witness == frame.kind = "stale" /\ wasPinching /\ isScrolling

\* C21: every state handed to onUpdate carries a gesture among OPEN, PINCH and
\* SCROLL; the gesture is OPEN exactly when isDown is false, and SCROLL only
\* when isDown is true and the session is in scroll mode.
C21_GestureVocabulary ==
  \A k \in 1..Len(updates) :
     /\ updates[k].gesture \in {"OPEN", "PINCH", "SCROLL"}
     /\ (updates[k].gesture = "OPEN") = ~updates[k].isDown
     /\ updates[k].gesture = "SCROLL" => (updates[k].isDown /\ isScrolling /\ wasPinching)

\* C21 witness: a SCROLL report, down, from a session in scroll mode
C21_Witness == Reported("SCROLL") /\ updates[1].isDown /\ isScrolling

\* An OPEN report from the frame that released a session in scroll mode
C21_OpenAfterScroll == Reported("OPEN") /\ ~updates[1].isDown /\ frame.wasScrolling

\* C22: a frame that continues a pinch session already in scroll mode (SCROLL
\* has been reported for it) reports SCROLL again and the session stays in
\* scroll mode; the frame that releases a session reports OPEN.
C22_ScrollSticks ==
  /\ (HoldSeen /\ frame.wasScrolling) => (Reported("SCROLL") /\ isScrolling)
  /\ (HandSeen /\ Reported("SCROLL")) => (frame.isPinching /\ frame.wasPinching)
  /\ ReleaseSeen => Reported("OPEN")

\* C22 witness: the second scroll-mode frame of a session, reporting SCROLL
C22_Witness ==
  HoldSeen /\ frame.wasScrolling /\ isScrolling /\ Elapsed = 2001 /\ Reported("SCROLL")

\* The release of a session in scroll mode, reporting OPEN
C22_ReleaseReportsOpen == ReleaseSeen /\ frame.wasScrolling /\ Reported("OPEN")

\* C23: while a pinch session is open the stored last position is the cursor
\* and, after a hand frame, the stored last scale is that frame's hand scale,
\* before the dwell as well as in scroll mode and whether or not a pan or a
\* zoom was issued; so the deltas of a scroll-mode frame are that frame's own
\* motion and growth.
C23_LastValuesFollowEveryFrame ==
  /\ wasPinching => (lastScrollX = cursorX /\ lastScrollY = cursorY)
  /\ (HandSeen /\ frame.isPinching) => lastHandScale = frame.currentScale
  /\ (HoldSeen /\ isScrolling /\ Abs(frame.deltaX) <= Unit /\ Abs(frame.deltaY) <= Unit) =>
        Count("scrollBy") = 0

\* C23 witness: a frame before the dwell in which the cursor had moved away
\* from where the session began and the scale had changed, both stored, no
\* pan or zoom issued
C23_Witness ==
  /\ HoldSeen /\ ~isScrolling
  /\ cursorX # sessionOrigin.x /\ lastScrollX = cursorX
  /\ frame.currentScale # sessionOrigin.scale /\ lastHandScale = frame.currentScale
  /\ sessionScrolls = {}

\* C24: the frame in which a pinch is newly detected leaves the session with
\* pinchStartTime = now, isScrolling false, the last position at the cursor as
\* smoothed in that frame and the last scale at that frame's hand scale,
\* whatever they held before, and issues a pointermove and a pointerdown and
\* nothing else: no scrollBy, no wheel event, no click, no pointerup.
C24_SessionOpened ==
  StartSeen =>
     /\ pinchStartTime = frame.now
     /\ ~isScrolling
     /\ lastScrollX = cursorX /\ lastScrollY = cursorY
     /\ lastHandScale = frame.currentScale
     /\ wasPinching
     /\ [k \in 1..Len(effects) |-> effects[k].type] = <<"pointermove", "pointerdown">>
     /\ Reported("PINCH")

\* C24 witness: a session opened at 2001 ms, away from the centre and with a
\* hand scale of 0.103, all three stored
C24_Witness ==
  /\ StartSeen /\ pinchStartTime = 2001
  /\ cursorX # (innerWidth * Unit) \div 2 /\ lastScrollX = cursorX
  /\ lastHandScale = 103

\* C25: a frame that issues a click is a release frame and issues exactly
\* pointermove, pointerup, click in that order, the click at the coordinates
\* of the pointerup, which are the cursor as smoothed in that frame; a pinch
\* session issues at most one click.
C25_ClickFollowsPointerUp ==
  /\ Count("click") > 0 =>
       /\ ReleaseSeen
       /\ [k \in 1..Len(effects) |-> effects[k].type] = <<"pointermove", "pointerup", "click">>
       /\ effects[3].x = effects[2].x /\ effects[3].y = effects[2].y
       /\ effects[3].x = cursorX /\ effects[3].y = cursorY
       /\ effects[3].target = effects[2].target
  /\ Len(SelectSeq(sessionLog, LAMBDA e : e = "click")) <= 1
  /\ (sessionLog # <<>> /\ sessionLog[Len(sessionLog)] = "click") =>
       (Len(sessionLog) = 3 /\ sessionLog[2] = "pointerup")

\* C25 witness: a release 1000 ms after the start whose cursor moved in the
\* release frame itself; the click is where the pointerup is
C25_Witness ==
  /\ ReleaseSeen /\ Elapsed = 1000 /\ Count("click") = 1
  /\ cursorX # lastScrollX
  /\ effects[3].x = cursorX

\* C26: a hand frame whose hit-test finds no element delivers nothing to the
\* document and calls no scrollBy, and yet leaves the session as the frame's
\* classification, clock, cursor and scale alone determine: wasPinching, the
\* start time, scroll mode, the last position and scale; and it calls
\* onUpdate once.
C26_MissedHitTestOnlyDropsDispatch ==
  [][(frame'.kind = "hand" /\ effects'[1].target = NoElement) =>
       LET pinching == frame'.isPinching
           start == pinching /\ ~wasPinching
           hold == pinching /\ wasPinching
       IN /\ Delivered(effects') = <<>>
          /\ OfType(effects', "scrollBy") = <<>>
          /\ wasPinching' = pinching
          /\ pinchStartTime' = (IF start THEN frame'.now ELSE pinchStartTime)
          /\ isScrolling' = (hold /\ (isScrolling \/ frame'.now - pinchStartTime > 2000))
          /\ lastScrollX' = (IF pinching THEN cursorX' ELSE lastScrollX)
          /\ lastScrollY' = (IF pinching THEN cursorY' ELSE lastScrollY)
          /\ lastHandScale' = (IF pinching THEN frame'.currentScale ELSE lastHandScale)
          /\ Len(OfType(effects', "pointerdown")) = (IF start THEN 1 ELSE 0)
          /\ Len(OfType(effects', "pointerup")) = (IF ~pinching /\ wasPinching THEN 1 ELSE 0)
          /\ Len(updates') = 1
          /\ updates'[1].isDown = pinching]_vars

\* C26 witness: a session opened at 2001 ms over no element: the pointermove
\* and the pointerdown reached nothing, the session is open, onUpdate was called
C26_Witness ==
  /\ StartSeen /\ pinchStartTime = 2001
  /\ Len(effects) = 2 /\ Delivered(effects) = <<>>
  /\ wasPinching /\ lastScrollX = cursorX
  /\ Len(updates) = 1

\* A scroll-mode frame over no element whose motion exceeds the noise floor
\* and whose scale grew: no scrollBy, the wheel event reached nothing
C26_ScrollOverNothing ==
  /\ HoldSeen /\ isScrolling /\ Abs(frame.deltaX) > Unit /\ frame.scaleDelta > 2
  /\ effects[1].target = NoElement
  /\ Count("scrollBy") = 0 /\ Count("wheel") = 1 /\ Delivered(effects) = <<>>

\* C27: from the moment connect() has started the frame loop and until
\* disconnect() is called, exactly one animation frame is pending after every
\* step, whatever the last pass did.
C27_LoopKeepsGoing ==
  (pc[1] = "done" /\ ~stopped) => Cardinality(rafQueue) = 1


\* C28: a connect() that follows a disconnect() starts the engine from its
\* initial state: no pinch session is open (wasPinching and isScrolling are
\* false) and the cursor is at the centre of the screen. Only a disconnect()
\* that found no connect() in flight and left no frame pending is considered.
C28_ReconnectStartsFresh ==
  [][(/\ stopped /\ ~stopped'
      /\ rafQueue = {}
      /\ \A i \in Tasks : pc[i] \in {"idle", "done", "failed"}) =>
       /\ ~wasPinching' /\ ~isScrolling'
       /\ cursorX' = (innerWidth * Unit) \div 2
       /\ cursorY' = (innerHeight * Unit) \div 2]_vars


\* C29: at most one frame loop is scheduled at any time, whatever the sequence
\* and interleaving of connect() and disconnect() calls.
C29_OneLoop == Cardinality(rafQueue) <= 1


\* The chain element, parent, grandparent, ... of a hit element
RECURSIVE Chain(_)
Chain(el) == IF el = NoElement THEN <<>> ELSE <<el>> \o Chain(Dom[el].parent)

\* Node n scrolls and its content exceeds its box in at least one axis
ScrollsAndExceeds(n) ==
  /\ \/ Dom[n].overflowX \notin {"visible", "hidden"}
     \/ Dom[n].overflowY \notin {"visible", "hidden"}
  /\ \/ Dom[n].scrollHeight > Dom[n].clientHeight
     \/ Dom[n].scrollWidth > Dom[n].clientWidth

\* The first node of seq that satisfies Test, NoElement when none does
FirstOf(seq, Test(_)) ==
  LET hits == {i \in 1..Len(seq) : Test(seq[i])}
  IN IF hits = {} THEN NoElement
     ELSE seq[CHOOSE i \in hits : \A j \in hits : i <= j]

\* The targets of the scrollBy calls of the last frame
PanTargets == [i \in 1..Count("scrollBy") |-> OfType(effects, "scrollBy")[i].target]

\* The last frame was in scroll mode with motion beyond the noise floor, so
\* getScrollParent was applied to the element under the cursor
PanSeen ==
  HoldSeen /\ isScrolling /\ (Abs(frame.deltaX) > Unit \/ Abs(frame.deltaY) > Unit)

\* C30 as stated: getScrollParent returns the first node on the chain of the
\* hit element (the element itself first) that is scrollable with content
\* exceeding its box, and null when there is none or the element is null.
C30_NearestScroller ==
  PanSeen =>
    LET found == FirstOf(Chain(effects[1].target), ScrollsAndExceeds)
    IN PanTargets = IF found = NoElement THEN <<>> ELSE <<found>>

\* C30, amended: the first such node that is an HTMLElement; the other nodes
\* of the chain are passed over whatever their style and size.
HTMLScrollsAndExceeds(n) == Dom[n].html /\ ScrollsAndExceeds(n)
C30_NearestHTMLScroller ==
  PanSeen =>
    LET found == FirstOf(Chain(effects[1].target), HTMLScrollsAndExceeds)
    IN PanTargets = IF found = NoElement THEN <<>> ELSE <<found>>

\* C30 witness: a pan over a scrollable, overflowing element that is not an
\* HTMLElement and has no scrollable HTMLElement above it: nothing is scrolled
C30_Witness ==
  /\ PanSeen /\ effects[1].target # NoElement
  /\ ~Dom[effects[1].target].html /\ ScrollsAndExceeds(effects[1].target)
  /\ PanTargets = <<>>

\* A pan over an element whose scroll parent is two levels up
C30_Grandparent ==
  /\ PanSeen
  /\ \E n \in Nodes : /\ effects[1].target = n
                       /\ Dom[n].parent # NoElement
                       /\ PanTargets = <<Dom[Dom[n].parent].parent>>


\* C31: the cursor starts at the centre of the screen; a step that processed
\* a hand frame moves it on both axes by 0.2 of its distance to the target
\* ((1 - indexTip.x) * width, indexTip.y * height), which it stores, and every
\* event of the frame and its onUpdate payload carry the cursor as moved.
C31_Smoothing ==
  /\ cursorX = (innerWidth * Unit) \div 2 /\ cursorY = (innerHeight * Unit) \div 2
  /\ [][frame'.kind = "hand" =>
          /\ targetX' = (1000 - frame'.tipX) * ((innerWidth * Unit) \div 1000)
          /\ targetY' = frame'.tipY * ((innerHeight * Unit) \div 1000)
          /\ 10 * (cursorX' - cursorX) = 2 * (targetX' - cursorX)
          /\ 10 * (cursorY' - cursorY) = 2 * (targetY' - cursorY)
          /\ \A i \in 1..Len(effects') :
               effects'[i].type # "scrollBy" =>
                 effects'[i].x = cursorX' /\ effects'[i].y = cursorY'
          /\ Len(updates') = 1
          /\ updates'[1].x = cursorX' /\ updates'[1].y = cursorY']_vars

\* C31 witness: a release frame with its click, the cursor off the centre and
\* short of the target, the pointerup and the click at the cursor
C31_Witness ==
  /\ ReleaseSeen /\ Count("click") = 1
  /\ cursorX # (innerWidth * Unit) \div 2 /\ cursorX # targetX
  /\ \A i \in 1..Len(effects) : effects[i].x = cursorX
  /\ updates[1].x = cursorX


\* C32: the calls of a hand frame come in a fixed order: pointermove first;
\* then pointerdown in a pinch-start frame, scrollBy and then wheel (each when
\* its deadzone is exceeded) in a scroll-mode frame, pointerup and then click
\* (when accepted) in a release frame, nothing otherwise; onUpdate last.  The
\* pointermove of a pinch-start frame has buttons = 1, that of a release
\* frame buttons = 0.
C32_CallOrder ==
  HandSeen =>
    LET n == Len(frame.calls)
        middle == SubSeq(frame.calls, 2, n - 1)
    IN /\ n >= 2
       /\ frame.calls[1] = "pointermove" /\ effects[1].type = "pointermove"
       /\ frame.calls[n] = "onUpdate"
       /\ StartSeen => middle = <<"pointerdown">> /\ effects[1].buttons = 1
       /\ (HoldSeen /\ isScrolling) =>
            middle \in {<<>>, <<"scrollBy">>, <<"wheel">>, <<"scrollBy", "wheel">>}
       /\ (HoldSeen /\ ~isScrolling) => middle = <<>>
       /\ ReleaseSeen =>
            /\ middle \in {<<"pointerup">>, <<"pointerup", "click">>}
            /\ effects[1].buttons = 0
       /\ (~frame.isPinching /\ ~frame.wasPinching) => middle = <<>>

\* C32 witness: a scroll-mode frame that pans and zooms: pointermove,
\* scrollBy, wheel, onUpdate
C32_Witness ==
  HoldSeen /\ isScrolling /\ frame.calls = <<"pointermove", "scrollBy", "wheel", "onUpdate">>

\* A release frame with its click: pointermove, pointerup, click, onUpdate
C32_ReleaseOrder ==
  ReleaseSeen /\ frame.calls = <<"pointermove", "pointerup", "click", "onUpdate">>


\* C33: a pass in which no hand is detected while a pinch session is open
\* leaves the session as it is and issues nothing; the hand frame that follows
\* such a gap measures the duration from the press, gap included: still
\* pinching, it issues no pointerdown and no pointerup and is in scroll mode
\* when more than 2000 ms have passed since the press; open, it issues one
\* pointerup, and one click exactly when the session is not in scroll mode and
\* the time since the press is above 200 ms and below 1800 ms.
C33_GapInPinch ==
  [][/\ (wasPinching /\ frame'.kind = "nohand") =>
          /\ UNCHANGED session
          /\ effects' = <<>> /\ updates' = <<>>
     /\ (wasPinching /\ frame.kind = "nohand" /\ frame'.kind = "hand") =>
          LET elapsed == frame'.now - pinchStartTime
              downs == Len(OfType(effects', "pointerdown"))
              ups == Len(OfType(effects', "pointerup"))
              clicks == Len(OfType(effects', "click"))
          IN /\ frame'.duration = elapsed
             /\ UNCHANGED pinchStartTime
             /\ downs = 0
             /\ frame'.isPinching =>
                  /\ ups = 0 /\ clicks = 0 /\ wasPinching'
                  /\ elapsed > 2000 => isScrolling' /\ frame'.gesture = "SCROLL"
             /\ ~frame'.isPinching =>
                  /\ ups = 1 /\ ~wasPinching'
                  /\ clicks = IF ~isScrolling /\ elapsed > 200 /\ elapsed < 1800
                              THEN 1 ELSE 0]_vars

\* C33 witness: a pinch pressed at 0, lost from view, and seen again still
\* pinching at 2001 ms: scroll mode, entered by the frame after the gap
C33_Witness ==
  /\ HoldSeen /\ ~frame.wasScrolling /\ isScrolling
  /\ pinchStartTime = 0 /\ frame.now = 2001
  /\ sessionLog = <<"pointerdown">>

\* A pinch pressed at 0, lost from view, and seen again open at 500 ms: the
\* pointerup and the click
C33_ClickAfterGap ==
  /\ ReleaseSeen /\ frame.now = 500 /\ pinchStartTime = 0
  /\ Count("pointerup") = 1 /\ Count("click") = 1


\* C34: every pointerdown is followed by a pointerup before the engine stops
\* issuing events: once disconnect() has stopped the loop, with no connect()
\* in flight and no frame pending, the last press call was not a pointerdown.
C34_ReleasedWhenStopped ==
  (/\ stopped
   /\ rafQueue = {}
   /\ \A i \in Tasks : pc[i] \in {"idle", "done", "failed"}) =>
    lastPress # "pointerdown"


\* C35: a pinch session never has both a click and a pan or wheel call, and
\* a session released between 1800 ms and 2000 ms after its press has issued
\* pointerdown and pointerup and nothing else: no click, no scrollBy, no wheel.
C35_ClickOrScroll ==
  ReleaseSeen =>
    /\ ~(Count("click") > 0 /\ sessionScrolls # {})
    /\ Len(SelectSeq(sessionLog, LAMBDA c : c = "click")) <= 1
    /\ (frame.duration >= 1800 /\ frame.duration <= 2000) =>
         /\ sessionLog = <<"pointerdown", "pointerup">>
         /\ sessionScrolls = {}
         /\ Count("click") = 0 /\ Count("scrollBy") = 0 /\ Count("wheel") = 0

\* C35 witness: a pinch that moved and grew, released exactly 2000 ms after
\* its press: pointerdown and pointerup only
C35_Witness ==
  /\ ReleaseSeen /\ frame.duration = 2000
  /\ lastScrollX # sessionOrigin.x /\ lastHandScale # sessionOrigin.scale
  /\ sessionLog = <<"pointerdown", "pointerup">> /\ sessionScrolls = {}

\* A session that scrolled, released without a click; one that clicked,
\* without a scroll
C35_ScrolledNoClick == ReleaseSeen /\ sessionScrolls # {} /\ Count("click") = 0
C35_ClickedNoScroll == ReleaseSeen /\ sessionScrolls = {} /\ Count("click") = 1


\* C36: with every landmark coordinate in [0, 1] and a window of constant
\* size, the cursor is inside the screen rectangle in every state:
\* 0 <= cursorX <= width and 0 <= cursorY <= height.
C36_CursorOnScreen ==
  /\ 0 <= cursorX /\ cursorX <= innerWidth * Unit
  /\ 0 <= cursorY /\ cursorY <= innerHeight * Unit

\* C36 witness: after hand frames whose index tip is at the corner (1, 0) of
\* the camera image, the target is the corner (0, 0) of the screen and the
\* cursor is within a quarter of the screen of it on both axes
C36_Witness ==
  /\ HandSeen /\ frame.tipX = 1000 /\ frame.tipY = 0
  /\ targetX = 0 /\ targetY = 0
  /\ cursorX > 0 /\ cursorX < (innerWidth * Unit) \div 4
  /\ cursorY > 0 /\ cursorY < (innerHeight * Unit) \div 4

\* The same towards the opposite corner of the screen
C36_FarCorner ==
  /\ HandSeen /\ targetX = innerWidth * Unit /\ targetY = innerHeight * Unit
  /\ cursorX > 3 * ((innerWidth * Unit) \div 4) /\ cursorX < innerWidth * Unit
  /\ cursorY > 3 * ((innerHeight * Unit) \div 4) /\ cursorY < innerHeight * Unit


\* C37: a pass of the loop that finds video.currentTime equal to the time of
\* the last processed frame runs no detection, leaves every field of the
\* engine but the animation id as it is, dispatches nothing and does not call
\* onUpdate; a pass that runs the detector does so on a later video frame than
\* any before, so that no video frame is processed twice.
C37_StaleFrameSkipped ==
  [][frame'.kind \in {"hand", "nohand", "stale", "idle"} =>
       /\ (video' # Null /\ handLandmarker # Null /\ videoTime' = lastVideoTime) =>
            /\ frame'.kind = "stale"
            /\ UNCHANGED <<handLandmarker, video, lastVideoTime, callback, smoother, session>>
            /\ effects' = <<>> /\ updates' = <<>>
       /\ frame'.kind \in {"hand", "nohand"} =>
            lastVideoTime' = videoTime' /\ lastVideoTime' > lastVideoTime]_vars

\* C37 witness: a pass on a video frame already processed, in the middle of a
\* pinch session in scroll mode, one frame pending
C37_Witness ==
  /\ frame.kind = "stale" /\ lastVideoTime = videoTime /\ lastVideoTime > 0
  /\ wasPinching /\ isScrolling
  /\ effects = <<>> /\ updates = <<>> /\ Cardinality(rafQueue) = 1


\* C38: a run of PaintCanvas's drawing effect draws a segment only when the
\* cursor update it processes and the one the run before it processed both
\* have isDown = true, and the segment goes from the canvas position of the
\* earlier update to that of the current one; the drawing branch never finds
\* lastPos null (no TypeError), and whenever isDrawing is, or is queued to
\* be, true the ref holds a position.
C38_SegmentsJoinDownUpdates ==
  /\ [](/\ stroke.kind # "TypeError"
        /\ (ctx # Null /\ queuedIsDrawing) => ~lastPos.none)
  /\ [][stroke'.kind = "segment" =>
          /\ cursor'.isDown
          /\ ~processed.none /\ processed.isDown
          /\ stroke'.from = ToCanvas(processed)
          /\ stroke'.to = ToCanvas(cursor')]_vars

\* C38 witness: a segment between two different canvas positions, drawn for
\* a down update that followed a down update elsewhere
C38_Witness ==
  /\ stroke.kind = "segment" /\ stroke.from # stroke.to
  /\ cursor.isDown /\ isDrawing /\ lastPos = stroke.to
  /\ stroke.from = [none |-> FALSE, x |-> 100 - rect.left, y |-> 0 - rect.top]

\* An update with isDown false after a stroke: nothing drawn, the ref cleared
C38_StrokeEnded ==
  /\ ~cursor.isDown /\ isDrawing /\ ~queuedIsDrawing /\ lastPos.none /\ stroke.kind = "none"

====
